---- MODULE Spec2Model ----
(***************************************************************************)
(* Model of sync.py: a single-threaded loop that synchronises mapped local *)
(* files with a Google Drive folder by comparing modification times, and   *)
(* uploads a zip backup of the mapped files every BACKUP_INTERVAL_DAYS.    *)
(*                                                                         *)
(* Time is counted in polling periods (300 s) since the epoch.  Instants   *)
(* (os.path.getmtime, Drive's modifiedTime) are UTC; the host's local time *)
(* is tz periods ahead of UTC.  Python's naive datetime values are modelled*)
(* by what they do: datetime.now() is the local wall clock (clock + tz),   *)
(* strptime(...) of a Drive timestamp is the UTC wall clock (no shift),    *)
(* and .timestamp() of a naive value reads it as local time (- tz).        *)
(***************************************************************************)
EXTENDS Integers, Sequences, FiniteSets, TLC

VARIABLES
    pc,                     \* position of the process in __main__/sync/create_backup
    err,                    \* where the error that ended the process was raised
    clock,                  \* the current instant (UTC)
    iter,                   \* iterations of the main loop completed
    tz,                     \* offset of the host's local time from UTC
    cfgFile,                \* content of CONFIG_FILE: file_mappings in file order
    local,                  \* local file system: path -> mtime or NoFile
    local0,                 \* the local file system as sync() found it
    drive,                  \* records of the sync folder config['folder_id']
    backups,                \* records of the folder BACKUP_FOLDER_ID
    tmp,                    \* archives present under /tmp: name -> mtime, entries
    nextId,                 \* next identifier the remote store hands out
    config,                 \* sync(): config
    drive_files,            \* sync(): drive_files
    i,                      \* sync(): position in the upload loop
    j,                      \* sync(): position in the download loop
    last_backup_time,       \* __main__: last_backup_time (naive local)
    now,                    \* create_backup(): now (naive local)
    backup_files_in_drive,  \* create_backup(): backup_files_in_drive
    backup_file_name,       \* create_backup(): backup_file_name
    calls,                  \* remote transfer calls issued in this iteration
    warnings,               \* logging.warning lines of this iteration
    envLeft                 \* changes the outside world may still make

timeVars == <<clock, iter, tz>>
syncVars == <<config, drive_files, i, j>>
backupVars == <<now, backup_files_in_drive, backup_file_name>>
remoteVars == <<drive, backups, nextId>>
logVars == <<calls, warnings>>

vars == <<pc, err, timeVars, cfgFile, local, local0, remoteVars, tmp, syncVars,
          last_backup_time, backupVars, logVars, envLeft>>

----------------------------------------------------------------------------
(* Program constants and bounds *)

BACKUP_INTERVAL_DAYS == 10
PollSeconds == 300
DAY == 86400 \div PollSeconds
HOUR == 3600 \div PollSeconds
\* timedelta(days=BACKUP_INTERVAL_DAYS)
Interval == BACKUP_INTERVAL_DAYS * DAY

StartClock == 5000
MaxIter == 1
MaxFiles == 3
MaxEnv == 1

\* hosts one hour behind UTC, on UTC, one hour ahead of UTC
TZOffsets == {-HOUR, 0, HOUR}
NoFile == -1
NoName == ""

\* a path is its directory and its last component
Path(d, b) == [dir |-> d, base |-> b]
NoPath == Path("", "")
XA == Path("/x", "a")
XB == Path("/x", "b")
YA == Path("/y", "a")
Paths == {XA, XB, YA}
Names == {"a", "b"}

\* os.path.basename(file_path)
Basename(p) == p.base

\* os.path.join("/tmp", backup_file_name)
TmpPath(n) == Path("/tmp", n)

Map(k, p) == [key |-> k, path |-> p]

\* contents of config.json the runs start from or are edited to
Configs ==
    { <<>>,
      <<Map("a", XA)>>,
      <<Map("a", XA), Map("b", XB)>>,
      <<Map("a", XA), Map("b", YA)>>,
      <<Map("b", XA)>>,
      <<Map("a", XA), Map("b", XA)>> }

Rec(id, n, t) == [id |-> id, name |-> n, modifiedTime |-> t]

----------------------------------------------------------------------------
(* Pure helpers *)

\* datetime.now(): the naive local wall clock
NowLocal(c, z) == c + z

\* datetime.strptime(modifiedTime, '%Y-%m-%dT%H:%M:%S.%fZ'): naive, UTC digits
ParseTime(t) == t

\* naive_datetime.timestamp(): the naive value read as local time
Timestamp(t, z) == t - z

\* file_mapping.get(file_name)
RECURSIVE Lookup(_, _)
Lookup(m, k) ==
    IF m = <<>> THEN NoPath
    ELSE LET r == Lookup(Tail(m), k)
         IN  IF r # NoPath THEN r
             ELSE IF Head(m).key = k THEN Head(m).path ELSE NoPath

\* next((f for f in drive_files if f['name'] == file_name), None), as an index
RECURSIVE FirstNamedFrom(_, _, _)
FirstNamedFrom(files, n, k) ==
    IF k > Len(files) THEN 0
    ELSE IF files[k].name = n THEN k
    ELSE FirstNamedFrom(files, n, k + 1)

FirstNamed(files, n) == FirstNamedFrom(files, n, 1)

\* upload_file with the comparison of line 63 turned round
UploadDecisionInverted(file_name, local_modified_time, files, z) ==
    LET k == FirstNamed(files, file_name)
    IN  IF k = 0 THEN "create"
        ELSE IF local_modified_time >= Timestamp(ParseTime(files[k].modifiedTime), z)
             THEN "skip"
             ELSE "update"

\* upload_file: what the comparison of lines 60-73 decides
UploadDecision(file_name, local_modified_time, files, z) ==
    LET k == FirstNamed(files, file_name)
    IN  IF k = 0 THEN "create"
        ELSE IF local_modified_time <= Timestamp(ParseTime(files[k].modifiedTime), z)
             THEN "skip"
             ELSE "update"

\* download_file: what lines 84-96 decide
DownloadDecision(file_mapping, file_name, drive_file, fs, z) ==
    LET local_file_path == Lookup(file_mapping, file_name)
    IN  IF local_file_path = NoPath THEN "unmapped"
        ELSE IF /\ fs[local_file_path] # NoFile
                /\ fs[local_file_path] >=
                       Timestamp(ParseTime(drive_file.modifiedTime), z)
             THEN "skip"
             ELSE "download"

\* create_backup lines 116-120: index of the most recent backup record, 0 if none
RECURSIVE RecentFrom(_, _, _)
RecentFrom(files, k, best) ==
    IF k > Len(files) THEN best
    ELSE IF best = 0 \/ ParseTime(files[k].modifiedTime) >
                            ParseTime(files[best].modifiedTime)
         THEN RecentFrom(files, k + 1, k)
         ELSE RecentFrom(files, k + 1, best)

RecentBackup(files) == RecentFrom(files, 1, 0)

\* create_backup judging by the first record listed instead of the most recent
BackupSkippedByFirst(files, n) ==
    files # <<>> /\ n - ParseTime(files[1].modifiedTime) < Interval

\* create_backup lines 122-126: the backup is skipped
BackupSkipped(files, n) ==
    LET k == RecentBackup(files)
    IN  k # 0 /\ n - ParseTime(files[k].modifiedTime) < Interval

\* f"backup_{now.strftime('%Y%m%d_%H%M%S')}.zip"
BackupName(n) == "backup_" \o ToString(n) \o ".zip"

\* the remote store after files().update(fileId=id): content and time replaced
Updated(folder, id, t) ==
    [k \in 1..Len(folder) |->
        IF folder[k].id = id THEN Rec(id, folder[k].name, t) ELSE folder[k]]

HasId(folder, id) == \E k \in 1..Len(folder) : folder[k].id = id

Call(op, where, n, id, p, ok) ==
    [op |-> op, folder |-> where, name |-> n, id |-> id, path |-> p, ok |-> ok]

\* zip.write() called for every mapped path, without the test of line 138
AllMapped(m, fs) == [k \in 1..Len(m) |-> m[k].path]

\* the mapped files zip.write() adds: those that exist, in mapping order
RECURSIVE Existing(_, _)
Existing(m, fs) ==
    IF m = <<>> THEN <<>>
    ELSE IF fs[Head(m).path] # NoFile
         THEN <<Head(m).path>> \o Existing(Tail(m), fs)
         ELSE Existing(Tail(m), fs)

RemoveAt(s, k) == [n \in 1..(Len(s) - 1) |-> IF n < k THEN s[n] ELSE s[n + 1]]

----------------------------------------------------------------------------
(* Initial states: the process has reached line 175 *)

InitTimes == {StartClock - 1, StartClock, StartClock + 1}

InitRecords == {Rec(0, n, t) : n \in Names, t \in InitTimes}

\* listings of the sync folder at start; identifiers follow the position
InitDrives ==
    {<<>>}
    \cup {<<[r EXCEPT !.id = 1]>> : r \in InitRecords}
    \cup UNION {{<<[r EXCEPT !.id = 1], Rec(2, n, StartClock + 1)>> :
                     n \in Names \ {r.name}} : r \in InitRecords}

RECURSIVE MappedPaths(_)
MappedPaths(m) ==
    IF m = <<>> THEN {} ELSE {Head(m).path} \cup MappedPaths(Tail(m))

\* the mapped files exist or not; nothing else is on disk
InitLocals(m) ==
    {fs \in [Paths -> {NoFile, StartClock}] :
        \A p \in Paths \ MappedPaths(m) : fs[p] = NoFile}

TwoFiles == <<Map("a", XA), Map("b", XB)>>

\* archives of the backup folder at start: one the full interval old, one a
\* period younger, one of the last period, and one that is old but bears the
\* name the archive of this run will get
OldBackup == Rec(3, BackupName(StartClock - Interval), StartClock - Interval)
YoungBackup ==
    Rec(3, BackupName(StartClock - Interval + 1), StartClock - Interval + 1)
LastBackup == Rec(3, BackupName(StartClock - 1), StartClock - 1)
NamesakeBackup(z) ==
    Rec(3, BackupName(NowLocal(StartClock, z)), StartClock - Interval)

InitBackups(z) ==
    { <<>>, <<OldBackup>>, <<YoungBackup>>, <<LastBackup>>,
      <<NamesakeBackup(z)>>,
      <<[OldBackup EXCEPT !.id = 2], LastBackup>>,
      <<LastBackup, [OldBackup EXCEPT !.id = 2]>> }

Init ==
    /\ pc = "loop"
    /\ err = "none"
    /\ clock = StartClock
    /\ iter = 0
    /\ tz \in TZOffsets
    /\ cfgFile \in Configs
    /\ local \in InitLocals(cfgFile)
    /\ local0 = local
    /\ \/ drive \in InitDrives /\ backups = <<>>
       \/ drive = <<>> /\ cfgFile = TwoFiles /\ backups \in InitBackups(tz)
    /\ tmp = {}
    /\ nextId = 4
    /\ config = <<>>
    /\ drive_files = <<>>
    /\ i = 0
    /\ j = 0
    /\ last_backup_time = NowLocal(clock, tz) - Interval
    /\ now = 0
    /\ backup_files_in_drive = <<>>
    /\ backup_file_name = NoName
    /\ calls = <<>>
    /\ warnings = <<>>
    /\ envLeft = MaxEnv

----------------------------------------------------------------------------
(* Errors: every except clause logs and re-raises, and __main__ catches      *)
(* nothing, so a raised error ends the process where it stands.             *)

\* a main loop that logs the error and goes on to sleep
RaiseCaught(where) ==
    /\ pc' = "sleep"
    /\ err' = where

\* an except clause that logs the error and lets the caller try again
RaiseRetried(where) ==
    /\ pc' = pc
    /\ err' = where

Raise(where) ==
    /\ pc' = "crashed"
    /\ err' = where

\* os.path.getmtime(file_path): of a mapped file, or of the archive under /tmp
Getmtime(file_path) ==
    IF file_path \in Paths THEN local[file_path]
    ELSE (CHOOSE a \in tmp : a.name = Basename(file_path)).mtime

\* upload_file(file_path, drive_files, folder_id) against the folder `where`;
\* ok says whether the remote call, if one is made, succeeds
UploadFile(file_path, files, where, ok) ==
    LET file_name == Basename(file_path)
        d == UploadDecision(file_name, Getmtime(file_path), files, tz)
        k == FirstNamed(files, file_name)
        folder == IF where = "sync" THEN drive ELSE backups
        id == IF d = "update" THEN files[k].id ELSE 0
        after ==
            CASE d = "skip" \/ ~ok -> folder
              [] d = "update" /\ ok -> Updated(folder, id, clock)
              [] d = "create" /\ ok -> Append(folder, Rec(nextId, file_name, clock))
    IN  /\ (d = "update" /\ ok) => HasId(folder, id)
        /\ (d = "create" /\ ok) => Len(folder) < MaxFiles
        /\ calls' = IF d = "skip" THEN calls
                    ELSE Append(calls, Call(d, where, file_name, id, file_path, ok))
        /\ nextId' = IF d = "create" /\ ok THEN nextId + 1 ELSE nextId
        /\ IF where = "sync"
           THEN drive' = after /\ UNCHANGED backups
           ELSE backups' = after /\ UNCHANGED drive

\* upload_file raised (lines 75-77)
UploadRaised(file_path, files, ok) ==
    /\ UploadDecision(Basename(file_path), Getmtime(file_path), files, tz) # "skip"
    /\ ~ok

\* download_file indexing the mapping instead of asking it: a KeyError
UnmappedRaises(file_name) ==
    /\ pc' = "crashed"
    /\ err' = "download"
    /\ UNCHANGED <<warnings, j, local, calls>>

\* download_file lines 86-88: the name is not mapped
Unmapped(file_name) ==
    /\ warnings' = Append(warnings, file_name)
    /\ j' = j + 1
    /\ UNCHANGED <<pc, err, local, calls>>

\* a download that removes the local file when the transfer fails
AfterDownloadCleanup(fs, local_file_path, ok, opened) ==
    IF ok THEN [fs EXCEPT ![local_file_path] = clock]
    ELSE [fs EXCEPT ![local_file_path] = NoFile]

\* the local file after lines 98-103: open(local_file_path, 'wb') creates or
\* truncates it, then the chunks are written
AfterDownload(fs, local_file_path, ok, opened) ==
    IF ok \/ opened THEN [fs EXCEPT ![local_file_path] = clock] ELSE fs

----------------------------------------------------------------------------
(* __main__ and sync() *)

\* lines 175-177: the top of the loop; sync() is entered
Loop ==
    /\ pc = "loop"
    /\ pc' = "sync_load"
    /\ calls' = <<>>
    /\ warnings' = <<>>
    /\ local0' = local
    /\ config' = <<>>
    /\ drive_files' = <<>>
    /\ i' = 0
    /\ j' = 0
    /\ UNCHANGED <<err, timeVars, cfgFile, local, remoteVars, tmp,
                   last_backup_time, backupVars, envLeft>>

\* line 156: config = load_config()
SyncLoadConfig ==
    /\ pc = "sync_load"
    /\ \E loaded \in BOOLEAN :
          IF loaded THEN /\ config' = cfgFile
                         /\ pc' = "sync_list"
                         /\ UNCHANGED err
                    ELSE /\ Raise("load_config")
                         /\ UNCHANGED config
    /\ UNCHANGED <<timeVars, cfgFile, local, local0, remoteVars, tmp,
                   drive_files, i, j, last_backup_time, backupVars, logVars,
                   envLeft>>

\* line 157: drive_files = list_files_in_drive(config['folder_id'])
SyncList ==
    /\ pc = "sync_list"
    /\ \E ok \in BOOLEAN :
          IF ok THEN /\ drive_files' = drive
                     /\ i' = 1
                     /\ pc' = "sync_upload"
                     /\ UNCHANGED err
                ELSE /\ Raise("list")
                     /\ UNCHANGED <<drive_files, i>>
    /\ UNCHANGED <<timeVars, cfgFile, local, local0, remoteVars, tmp, config,
                   j, last_backup_time, backupVars, logVars, envLeft>>

\* lines 159-161: one turn of the upload loop
SyncUpload ==
    /\ pc = "sync_upload"
    /\ i <= Len(config)
    /\ LET file_path == config[i].path
       IN  IF local[file_path] = NoFile
           THEN /\ i' = i + 1
                /\ UNCHANGED <<pc, err, remoteVars, calls>>
           ELSE \E ok \in BOOLEAN :
                  /\ UploadFile(file_path, drive_files, "sync", ok)
                  /\ IF UploadRaised(file_path, drive_files, ok)
                     THEN Raise("upload") /\ UNCHANGED i
                     ELSE i' = i + 1 /\ UNCHANGED <<pc, err>>
    /\ UNCHANGED <<timeVars, cfgFile, local, local0, tmp, config, drive_files,
                   j, last_backup_time, backupVars, warnings, envLeft>>

\* line 163: the upload loop is exhausted
SyncUploadsDone ==
    /\ pc = "sync_upload"
    /\ i > Len(config)
    /\ pc' = "sync_download"
    /\ j' = 1
    /\ UNCHANGED <<err, timeVars, cfgFile, local, local0, remoteVars, tmp,
                   config, drive_files, i, last_backup_time, backupVars,
                   logVars, envLeft>>

\* lines 163-164 and download_file: one turn of the download loop
SyncDownload ==
    /\ pc = "sync_download"
    /\ j <= Len(drive_files)
    /\ LET drive_file == drive_files[j]
           file_name == drive_file.name
       IN  \E loaded \in BOOLEAN, ok \in BOOLEAN, opened \in BOOLEAN :
             IF ~loaded
             THEN /\ Raise("load_config")
                  /\ UNCHANGED <<local, calls, warnings, j>>
             ELSE LET d == DownloadDecision(cfgFile, file_name, drive_file, local, tz)
                      local_file_path == Lookup(cfgFile, file_name)
                  IN  CASE d = "unmapped" -> Unmapped(file_name)
                        [] d = "skip" ->
                             /\ j' = j + 1
                             /\ UNCHANGED <<pc, err, local, calls, warnings>>
                        [] d = "download" ->
                             /\ ok => HasId(drive, drive_file.id)
                             /\ calls' = Append(calls,
                                   Call("download", "sync", file_name,
                                        drive_file.id, local_file_path, ok))
                             /\ local' = AfterDownload(local, local_file_path,
                                                       ok, opened)
                             /\ IF ok THEN j' = j + 1 /\ UNCHANGED <<pc, err>>
                                      ELSE Raise("download") /\ UNCHANGED j
                             /\ UNCHANGED warnings
    /\ UNCHANGED <<timeVars, cfgFile, local0, remoteVars, tmp, config,
                   drive_files, i, last_backup_time, backupVars, envLeft>>

\* sync() returning before the download loop is through
SyncReturnsEarly ==
    /\ pc = "sync_download"
    /\ pc' = "backup_check"
    /\ UNCHANGED <<err, timeVars, cfgFile, local, local0, remoteVars, tmp,
                   syncVars, last_backup_time, backupVars, logVars, envLeft>>

\* line 166: sync() returns
SyncDownloadsDone ==
    /\ pc = "sync_download"
    /\ j > Len(drive_files)
    /\ pc' = "backup_check"
    /\ UNCHANGED <<err, timeVars, cfgFile, local, local0, remoteVars, tmp,
                   syncVars, last_backup_time, backupVars, logVars, envLeft>>

\* main() calling create_backup() in every iteration, due or not
BackupCheckAlways ==
    /\ pc = "backup_check"
    /\ pc' = "create_backup"
    /\ UNCHANGED <<err, timeVars, cfgFile, local, local0, remoteVars, tmp,
                   syncVars, last_backup_time, backupVars, logVars, envLeft>>

\* line 179: is a backup due?
BackupCheck ==
    /\ pc = "backup_check"
    /\ pc' = IF NowLocal(clock, tz) - last_backup_time >= Interval
             THEN "create_backup" ELSE "sleep"
    /\ UNCHANGED <<err, timeVars, cfgFile, local, local0, remoteVars, tmp,
                   syncVars, last_backup_time, backupVars, logVars, envLeft>>

----------------------------------------------------------------------------
(* create_backup() *)

\* lines 112-129: list the backup folder, find the most recent, decide
CreateBackupList ==
    /\ pc = "create_backup"
    /\ now' = NowLocal(clock, tz)
    /\ \E ok \in BOOLEAN :
          IF ~ok
          THEN /\ Raise("list")
               /\ UNCHANGED <<backup_files_in_drive, backup_file_name>>
          ELSE /\ backup_files_in_drive' = backups
               /\ UNCHANGED err
               /\ IF BackupSkipped(backups, now')
                  THEN /\ pc' = "backup_return"
                       /\ UNCHANGED backup_file_name
                  ELSE /\ pc' = "backup_zip"
                       /\ backup_file_name' = BackupName(now')
    /\ UNCHANGED <<timeVars, cfgFile, local, local0, remoteVars, tmp, syncVars,
                   last_backup_time, logVars, envLeft>>

\* lines 131-140: load the mapping and zip the mapped files that exist
CreateBackupZip ==
    /\ pc = "backup_zip"
    /\ \E loaded \in BOOLEAN :
          IF ~loaded
          THEN /\ Raise("load_config")
               /\ UNCHANGED tmp
          ELSE /\ tmp' = {a \in tmp : a.name # backup_file_name}
                         \cup {[name |-> backup_file_name, mtime |-> clock,
                                entries |-> Existing(cfgFile, local)]}
               /\ pc' = "backup_upload"
               /\ UNCHANGED err
    /\ UNCHANGED <<timeVars, cfgFile, local, local0, remoteVars, syncVars,
                   last_backup_time, backupVars, logVars, envLeft>>

\* line 143: upload_file(local_backup_path, backup_files_in_drive, BACKUP_FOLDER_ID)
CreateBackupUpload ==
    /\ pc = "backup_upload"
    /\ \E ok \in BOOLEAN :
          /\ UploadFile(TmpPath(backup_file_name), backup_files_in_drive,
                        "backup", ok)
          /\ IF UploadRaised(TmpPath(backup_file_name), backup_files_in_drive, ok)
             THEN Raise("backup_upload")
             ELSE pc' = "backup_remove" /\ UNCHANGED err
    /\ UNCHANGED <<timeVars, cfgFile, local, local0, tmp, syncVars,
                   last_backup_time, backupVars, warnings, envLeft>>

\* lines 146-147: os.remove(local_backup_path)
CreateBackupRemove ==
    /\ pc = "backup_remove"
    /\ tmp' = {a \in tmp : a.name # backup_file_name}
    /\ pc' = "backup_return"
    /\ UNCHANGED <<err, timeVars, cfgFile, local, local0, remoteVars, syncVars,
                   last_backup_time, backupVars, logVars, envLeft>>

\* create_backup() has returned; line 182: last_backup_time = datetime.now()
BackupReturn ==
    /\ pc = "backup_return"
    /\ last_backup_time' = NowLocal(clock, tz)
    /\ now' = 0
    /\ backup_files_in_drive' = <<>>
    /\ backup_file_name' = NoName
    /\ pc' = "sleep"
    /\ UNCHANGED <<err, timeVars, cfgFile, local, local0, remoteVars, tmp,
                   syncVars, logVars, envLeft>>

\* how far the clock has moved when time.sleep(300) returns: one period, or
\* a whole backup interval when the host was suspended meanwhile
SleepAdvance == {1, Interval}

\* line 185: time.sleep(300)
Sleep ==
    /\ pc = "sleep"
    /\ iter < MaxIter
    /\ \E d \in SleepAdvance : clock' = clock + d
    /\ iter' = iter + 1
    /\ pc' = "loop"
    /\ UNCHANGED <<err, tz, cfgFile, local, local0, remoteVars, tmp, syncVars,
                   last_backup_time, backupVars, logVars, envLeft>>

----------------------------------------------------------------------------
(* The outside world: the user and other clients of the remote store.  It is *)
(* observed to act while the process sleeps; the configuration file is also  *)
(* edited between two turns of the download loop.                            *)

EnvTurn == pc = "sleep" /\ envLeft > 0

EditTurn == pc \in {"sleep", "sync_download"} /\ envLeft > 0

EnvWriteLocal ==
    /\ EnvTurn
    /\ \E p \in Paths : local' = [local EXCEPT ![p] = clock]
    /\ envLeft' = envLeft - 1
    /\ UNCHANGED <<pc, err, timeVars, cfgFile, local0, remoteVars, tmp,
                   syncVars, last_backup_time, backupVars, logVars>>

EnvRemoveLocal ==
    /\ EnvTurn
    /\ \E p \in Paths :
          /\ local[p] # NoFile
          /\ local' = [local EXCEPT ![p] = NoFile]
    /\ envLeft' = envLeft - 1
    /\ UNCHANGED <<pc, err, timeVars, cfgFile, local0, remoteVars, tmp,
                   syncVars, last_backup_time, backupVars, logVars>>

EnvRemoveRemote ==
    /\ EnvTurn
    /\ \E k \in 1..Len(drive) : drive' = RemoveAt(drive, k)
    /\ envLeft' = envLeft - 1
    /\ UNCHANGED <<pc, err, timeVars, cfgFile, local, local0, backups, nextId,
                   tmp, syncVars, last_backup_time, backupVars, logVars>>

EnvEditConfig ==
    /\ EditTurn
    /\ \E c \in Configs : c # cfgFile /\ cfgFile' = c
    /\ envLeft' = envLeft - 1
    /\ UNCHANGED <<pc, err, timeVars, local, local0, remoteVars, tmp,
                   syncVars, last_backup_time, backupVars, logVars>>

----------------------------------------------------------------------------

Program ==
    \/ Loop
    \/ SyncLoadConfig
    \/ SyncList
    \/ SyncUpload
    \/ SyncUploadsDone
    \/ SyncDownload
    \/ SyncDownloadsDone
    \/ BackupCheck
    \/ CreateBackupList
    \/ CreateBackupZip
    \/ CreateBackupUpload
    \/ CreateBackupRemove
    \/ BackupReturn
    \/ Sleep

Environment ==
    \/ EnvWriteLocal
    \/ EnvRemoveLocal
    \/ EnvRemoveRemote
    \/ EnvEditConfig

Next == Program \/ Environment

Spec == Init /\ [][Next]_vars

----------------------------------------------------------------------------
(* Vocabulary of the claims *)

\* positions in calls of the transfer calls of kind ops for name n in a folder
CallsOf(ops, where, n) ==
    {k \in 1..Len(calls) :
        calls[k].op \in ops /\ calls[k].folder = where /\ calls[k].name = n}

\* positions in calls of the download calls for the record id
DownloadsOf(id) ==
    {k \in 1..Len(calls) : calls[k].op = "download" /\ calls[k].id = id}

\* every key of the mapping is the base name of its file, no file is mapped twice
Plain(m) ==
    /\ \A k \in 1..Len(m) : m[k].key = Basename(m[k].path)
    /\ \A k, l \in 1..Len(m) : m[k].path = m[l].path => k = l

\* no two records of the listing bear the same name
UniqueNames(files) ==
    \A k, l \in 1..Len(files) : files[k].name = files[l].name => k = l

\* sync() has returned without an error, under a plain mapping that nobody
\* edited meanwhile, from a listing with unique names
PlainSyncDone ==
    /\ pc = "backup_check"
    /\ cfgFile = config
    /\ Plain(config)
    /\ UniqueNames(drive_files)

\* the local file p, as sync() found it, is newer than the record r of the
\* listing, or has no record (r = 0)
LocalNewer(p, r) ==
    /\ local0[p] # NoFile
    /\ r = 0 \/ local0[p] > drive_files[r].modifiedTime

\* the record r of the listing is newer than the local file p, or p is absent
RemoteNewer(p, r) ==
    \/ local0[p] = NoFile
    \/ drive_files[r].modifiedTime > local0[p]

----------------------------------------------------------------------------
(* C1: in a sync() cycle, every mapped local file that exists and is newer  *)
(* than the record of its name in the listing, or has no such record, gets  *)
(* exactly one create-or-update call and no download call.  Stated for the  *)
(* cycles that complete without error under a plain, unedited mapping.      *)
C1_NewerLocalUploadedOnce ==
    PlainSyncDone =>
        \A k \in 1..Len(config) :
            LET p == config[k].path
                n == Basename(p)
                r == FirstNamed(drive_files, n)
            IN  LocalNewer(p, r) =>
                    /\ Cardinality(CallsOf({"create", "update"}, "sync", n)) = 1
                    /\ CallsOf({"download"}, "sync", n) = {}

(* C2: in a sync() cycle, every record of the listing whose name is mapped  *)
(* and that is newer than the mapped local file, or whose local file is     *)
(* absent, gets exactly one download call, which writes the mapped path; a  *)
(* mapped record that is not newer gets none.  Stated for the cycles that   *)
(* complete without error under a plain, unedited mapping.                  *)
C2_NewerRemoteDownloadedOnce ==
    PlainSyncDone =>
        \A r \in 1..Len(drive_files) :
            LET n == drive_files[r].name
                p == Lookup(config, n)
                d == DownloadsOf(drive_files[r].id)
            IN  p # NoPath =>
                    IF RemoteNewer(p, r)
                    THEN /\ Cardinality(d) = 1
                         /\ \A k \in d : calls[k].path = p
                         /\ local[p] = clock
                    ELSE d = {}

(* C3: when a mapped local file and the record of its name in the listing   *)
(* have equal modification times, the cycle issues no create, update or     *)
(* download call for that name.  Stated for the cycles that complete        *)
(* without error under a plain, unedited mapping.                           *)
C3_EqualTimesNoTransfer ==
    PlainSyncDone =>
        \A k \in 1..Len(config) :
            LET p == config[k].path
                n == Basename(p)
                r == FirstNamed(drive_files, n)
            IN  (r # 0 /\ local0[p] = drive_files[r].modifiedTime) =>
                    CallsOf({"create", "update", "download"}, "sync", n) = {}

----------------------------------------------------------------------------
\* the listing holds a record that is less than the interval older than n
RecentExists(files, n) ==
    \E k \in 1..Len(files) : n - files[k].modifiedTime < Interval

\* the archive of this create_backup() lies under /tmp
ArchiveOnDisk == \E a \in tmp : a.name = backup_file_name

\* the archive of this create_backup() went out in a successful create or update
ArchiveSent ==
    \E k \in 1..Len(calls) :
        /\ calls[k].op \in {"create", "update"}
        /\ calls[k].folder = "backup"
        /\ calls[k].path = TmpPath(backup_file_name)
        /\ calls[k].ok

BackupCalls == {k \in 1..Len(calls) : calls[k].folder = "backup"}

C5_UnmappedSkipped ==
    [][(/\ pc = "sync_download"
        /\ j <= Len(drive_files)
        /\ cfgFile' = cfgFile
        /\ err' # "load_config"
        /\ Lookup(cfgFile, drive_files[j].name) = NoPath)
       => /\ calls' = calls
          /\ local' = local
          /\ warnings' = Append(warnings, drive_files[j].name)
          /\ err' = "none"
          /\ pc' = "sync_download"
          /\ j' = j + 1]_vars

\* an unmapped first record was skipped with a warning, then the second
\* record of the listing was downloaded
C5_Witness ==
    /\ pc = "backup_check"
    /\ Len(drive_files) = 2
    /\ warnings = <<drive_files[1].name>>
    /\ DownloadsOf(drive_files[2].id) # {}

(* C6: a create, update or download call of sync() that fails is the last   *)
(* transfer call of the cycle: the error leaves sync(), nothing is issued   *)
(* for the remaining files and records, and the call is not retried.        *)
C6_FailedCallEndsCycle ==
    \A k \in 1..Len(calls) :
        (calls[k].folder = "sync" /\ ~calls[k].ok) =>
            /\ k = Len(calls)
            /\ pc = "crashed"
            /\ err = IF calls[k].op = "download" THEN "download" ELSE "upload"

\* an upload failed while another mapped file and a listed record remained
C6_Witness ==
    /\ pc = "crashed"
    /\ err = "upload"
    /\ i < Len(config)
    /\ local[config[i + 1].path] # NoFile
    /\ Len(drive_files) > 0
    /\ ~calls[Len(calls)].ok

(* C7: an error raised by configuration loading, remote listing, a transfer *)
(* or the backup ends the process: it stands at the raise for ever, and no  *)
(* step of a sync pass, a backup pass or a sleep follows.                   *)
C7_ErrorIsFatal ==
    /\ [](err # "none" => pc = "crashed")
    /\ [][err = "none"]_vars

\* the upload of the archive raised in the second iteration
C7_Witness ==
    /\ pc = "crashed"
    /\ err = "backup_upload"
    /\ iter = 1

SyncPcs == {"sync_load", "sync_list", "sync_upload", "sync_download"}

(* C8 as claimed: every sync attempt, whether it returned or raised, is     *)
(* left towards the rest of the iteration and its sleep.                    *)
C8_Original ==
    [][(pc \in SyncPcs /\ pc' \notin SyncPcs)
       => pc' \in {"backup_check", "sleep"}]_vars

(* C8: a sync attempt that returned is left towards the backup check, and   *)
(* the process starts to sleep only from the backup check or the return of  *)
(* create_backup(), with no error raised; a sync attempt that raised ends   *)
(* the process, which does not sleep again.                                 *)
C8_IdleOnlyAfterSuccess ==
    /\ [][(pc \in SyncPcs /\ pc' \notin SyncPcs)
          => IF err' = "none" THEN pc' = "backup_check" ELSE pc' = "crashed"]_vars
    /\ [][(pc # "sleep" /\ pc' = "sleep")
          => pc \in {"backup_check", "backup_return"} /\ err' = "none"]_vars

\* the process sleeps after a sync attempt that transferred something
C8_Witness ==
    /\ pc = "sleep"
    /\ err = "none"
    /\ calls # <<>>

\* no record of the sync folder and no local file disappears in the step
NoDeletion ==
    /\ \A k \in 1..Len(drive) : HasId(drive', drive[k].id)
    /\ \A k \in 1..Len(backups) : HasId(backups', backups[k].id)
    /\ \A p \in Paths : local[p] # NoFile => local'[p] # NoFile

(* C9: no step of a sync or backup cycle removes a remote record or a local *)
(* file; what the outside world removed on one side is not removed on the   *)
(* other by any later cycle.                                                *)
C9_NoDeletionPropagated ==
    [][envLeft' = envLeft => NoDeletion]_vars

\* /x/a was uploaded in the first iteration and then removed locally; the
\* second sync() has returned and the record created for it is still there
C9_Witness ==
    /\ pc = "backup_check"
    /\ iter = 1
    /\ config = <<Map("a", XA)>>
    /\ local0[XA] = NoFile
    /\ \E k \in 1..Len(drive) : drive[k].id = 4 /\ drive[k].name = "a"

(* C10: the archive is removed from /tmp after, and only after, its upload  *)
(* succeeded: when create_backup() returns having built one, it was sent by *)
(* a create or update call and is gone; until then, and when the upload     *)
(* raises, it lies on disk.                                                 *)
C10_ArchiveRemovedAfterUpload ==
    /\ (pc = "backup_return" /\ backup_file_name # NoName) =>
          ArchiveSent /\ ~ArchiveOnDisk
    /\ pc = "backup_remove" => ArchiveSent /\ ArchiveOnDisk
    /\ pc = "backup_upload" => ArchiveOnDisk
    /\ (pc = "crashed" /\ err = "backup_upload") => ArchiveOnDisk /\ ~ArchiveSent
    /\ tmp # {} => pc \in {"backup_upload", "backup_remove", "crashed"}

\* the archive replaced an old record of its own name and is gone from /tmp
C10_Witness ==
    /\ pc = "backup_return"
    /\ backup_file_name # NoName
    /\ \E k \in 1..Len(calls) :
          calls[k].op = "update" /\ calls[k].folder = "backup" /\ calls[k].ok
    /\ tmp = {}

----------------------------------------------------------------------------
\* the upload loop of sync() is through and nothing raised
UploadsDone == pc \in {"sync_download", "backup_check"}

\* positions in calls of the create and update calls of the sync() cycle
SyncUploads ==
    {k \in 1..Len(calls) :
        calls[k].folder = "sync" /\ calls[k].op \in {"create", "update"}}

(* C11: upload_file issues a create call exactly when the listing has no    *)
(* record of the file's name; when the listing has one and the local file   *)
(* is newer than it, an update call addressed to the identifier of that     *)
(* record; an update adds no record to the folder and leaves the record's   *)
(* identifier and name as they were.                                        *)
C11_CreateOrUpdateById ==
    UploadsDone =>
        /\ \A c \in SyncUploads :
              LET r == FirstNamed(drive_files, calls[c].name)
              IN  /\ calls[c].op = "create" <=> r = 0
                  /\ calls[c].op = "update" =>
                        /\ calls[c].id = drive_files[r].id
                        /\ \E k \in 1..Len(drive) :
                              /\ drive[k].id = calls[c].id
                              /\ drive[k].name = calls[c].name
                              /\ \A l \in 1..Len(drive) :
                                    drive[l].id = calls[c].id => l = k
        /\ \A k \in 1..Len(config) :
              LET p == config[k].path
                  n == Basename(p)
                  r == FirstNamed(drive_files, n)
              IN  local0[p] # NoFile =>
                    /\ r = 0 => CallsOf({"create"}, "sync", n) # {}
                    /\ (r # 0 /\ local0[p] > drive_files[r].modifiedTime) =>
                          \E c \in CallsOf({"update"}, "sync", n) :
                              calls[c].id = drive_files[r].id
        /\ Len(drive) = Len(drive_files)
                          + Cardinality(CallsOf({"create"}, "sync", "a"))
                          + Cardinality(CallsOf({"create"}, "sync", "b"))

----------------------------------------------------------------------------
\* create_backup() has been called and has not returned to main() yet
InCreateBackup ==
    pc \in {"create_backup", "backup_zip", "backup_upload", "backup_remove",
            "backup_return"}

\* the records of the backup folder that this run of the process uploaded
UploadedArchives ==
    {k \in 1..Len(backups) : backups[k].modifiedTime >= StartClock}

(* C12: any two archives uploaded by one run of the main loop are at least  *)
(* BACKUP_INTERVAL_DAYS apart; create_backup() is running only when at      *)
(* least the interval has passed since its previous invocation returned,    *)
(* and the first iteration always invokes it.                               *)
C12_BackupsAnIntervalApart ==
    /\ \A k, l \in UploadedArchives :
          k # l => \/ backups[k].modifiedTime - backups[l].modifiedTime >= Interval
                   \/ backups[l].modifiedTime - backups[k].modifiedTime >= Interval
    /\ InCreateBackup => NowLocal(clock, tz) - last_backup_time >= Interval
    /\ (iter > 0 /\ InCreateBackup) => clock - StartClock >= Interval
    /\ (iter = 0 /\ pc = "sleep") => last_backup_time = NowLocal(clock, tz)

\* the second iteration has uploaded a second archive, an interval after the first
C12_Witness ==
    /\ iter = 1
    /\ pc = "sleep"
    /\ Cardinality(UploadedArchives) = 2

----------------------------------------------------------------------------
\* how many entries of the archive a were written from the path p
EntriesFrom(a, p) == Cardinality({k \in 1..Len(a.entries) : a.entries[k] = p})

\* how many entries of the mapping m lead to the path p
MappedTimes(m, p) == Cardinality({k \in 1..Len(m) : m[k].path = p})

\* the zip file of this create_backup() is closed and still on disk
ArchiveBuilt == pc \in {"backup_upload", "backup_remove"}

(* C13 as stated: the archive holds exactly the mapped files that exist on  *)
(* disk at backup time, one entry for each such file.                       *)
C13_Original ==
    ArchiveBuilt =>
        \A a \in tmp : \A p \in Paths :
            EntriesFrom(a, p) =
                IF MappedTimes(cfgFile, p) > 0 /\ local[p] # NoFile THEN 1 ELSE 0

(* C13: the archive holds one entry for each entry of the mapping whose     *)
(* path exists on disk at backup time, and nothing else; a mapped path that *)
(* is missing is left out and create_backup() goes on to the upload.        *)
C13_EntryPerExistingMapping ==
    ArchiveBuilt =>
        /\ tmp # {}
        /\ \A a \in tmp : \A p \in Paths :
              EntriesFrom(a, p) =
                  IF local[p] # NoFile THEN MappedTimes(cfgFile, p) ELSE 0

\* of two mapped files one is missing: the archive holds the other one alone
C13_Witness ==
    /\ pc = "backup_upload"
    /\ cfgFile = TwoFiles
    /\ local[XA] = NoFile
    /\ local[XB] # NoFile
    /\ \E a \in tmp : a.entries = <<XB>>

----------------------------------------------------------------------------
\* a turn of the download loop is taken for the record j of the listing
DownloadTurn ==
    pc = "sync_download" /\ j <= Len(drive_files) /\ cfgFile' = cfgFile

(* C14: every download decision of a sync() cycle is taken with the mapping *)
(* that the cycle loaded at its start: a record is warned about as unmapped *)
(* only if that mapping lacks its name, a download writes the path that     *)
(* mapping gives; the file itself is changed only from outside.            *)
C14_OneMappingPerCycle ==
    [][ /\ DownloadTurn =>
            LET file_name == drive_files[j].name
            IN  /\ warnings' # warnings => Lookup(config, file_name) = NoPath
                /\ calls' # calls =>
                      calls'[Len(calls')].path = Lookup(config, file_name)
        /\ cfgFile' # cfgFile => envLeft' < envLeft ]_vars

----------------------------------------------------------------------------
\* the sync() call of this iteration has returned without raising
SyncPassed ==
    /\ err = "none"
    /\ i > Len(config)
    /\ j > Len(drive_files)

\* the calls of one iteration come in the order uploads, downloads, backup
CallsInOrder ==
    \A k, l \in 1..Len(calls) :
        k < l =>
            /\ calls[k].folder = "backup" => calls[l].folder = "backup"
            /\ (calls[k].op = "download" /\ calls[l].folder = "sync") =>
                  calls[l].op = "download"

\* every download call is for a record of the listing sync() took at its start
DownloadsFromListing ==
    \A c \in 1..Len(calls) :
        calls[c].op = "download" =>
            \E r \in 1..Len(drive_files) :
                /\ drive_files[r].id = calls[c].id
                /\ drive_files[r].name = calls[c].name

(* C15: every iteration of the main loop runs one sync pass, then at most   *)
(* one backup pass, then one sleep: the iteration begins with sync(), the   *)
(* downloads follow the uploads and use the listing taken at the start of   *)
(* the pass, create_backup() is entered only from line 179 after sync() has *)
(* returned without error, at most once, and the sleep comes last.          *)
C15_SyncThenBackupThenSleep ==
    /\ [](/\ (pc = "backup_check" \/ InCreateBackup) => SyncPassed
          /\ pc = "sync_download" => i > Len(config)
          /\ tmp # {} => j > Len(drive_files)
          /\ CallsInOrder
          /\ DownloadsFromListing
          /\ Cardinality(BackupCalls) <= 1)
    /\ [][/\ pc = "loop" => pc' = "sync_load"
          /\ (pc' = "sync_load" /\ pc # "sync_load") => pc = "loop"
          /\ (pc' = "create_backup" /\ pc # "create_backup") =>
                pc = "backup_check"
          /\ (pc' = "sleep" /\ pc # "sleep") =>
                pc \in {"backup_check", "backup_return"}
          /\ (pc' = "loop" /\ pc # "loop") => pc = "sleep"
          /\ iter' # iter => pc = "sleep" /\ pc' = "loop" /\ iter' = iter + 1
         ]_vars

\* one iteration has uploaded a file, downloaded another, sent a backup and
\* reached the sleep
C15_Witness ==
    /\ pc = "sleep"
    /\ \E k \in 1..Len(calls) : calls[k].folder = "sync" /\ calls[k].op = "create"
    /\ \E k \in 1..Len(calls) : calls[k].op = "download"
    /\ BackupCalls # {}

----------------------------------------------------------------------------
\* a sync() cycle that follows a completed one, on a host whose local time is
\* UTC and under a plain mapping, with nothing but the program having touched
\* files, folder or mapping
UndisturbedLaterCycle ==
    /\ iter >= 1
    /\ envLeft = MaxEnv
    /\ tz = 0
    /\ Plain(cfgFile)
    /\ pc \in SyncPcs \cup {"backup_check"}

(* C16: a completed sync() is a fixed point: the next cycle, when nothing   *)
(* but the program changed the local files, the remote folder or the        *)
(* mapping meanwhile, issues no create, update or download call.            *)
C16_CompletedSyncIsFixedPoint ==
    UndisturbedLaterCycle =>
        \A k \in 1..Len(calls) : calls[k].folder # "sync"

----------------------------------------------------------------------------
\* the download loop of a later cycle is through, the mapping being the one
\* every earlier cycle read
LaterDownloadsDone ==
    /\ pc = "backup_check"
    /\ iter >= 1
    /\ envLeft = MaxEnv

(* C17: the name under which upload_file creates or matches the record of a *)
(* mapped file is the name download_file resolves to that file's path: the  *)
(* mapping leads from the name of every create or update call to the path   *)
(* that was uploaded, and in a later cycle no mapped file that exists, and   *)
(* so has been uploaded, has its record warned about as unmapped.           *)
C17_UploadNameResolvesBack ==
    /\ cfgFile = config =>
          \A c \in SyncUploads : Lookup(config, calls[c].name) = calls[c].path
    /\ LaterDownloadsDone =>
          \A k \in 1..Len(config) :
              local0[config[k].path] # NoFile =>
                  \A w \in 1..Len(warnings) :
                      warnings[w] # Basename(config[k].path)

----------------------------------------------------------------------------
\* an iteration of the main loop has completed on a host whose local time is UTC
IterationDone == pc = "sleep" /\ tz = 0

(* C18: the remote backup never stays stale over an iteration: when the     *)
(* iteration has completed, the backup folder holds a record younger than   *)
(* BACKUP_INTERVAL_DAYS, either because it held one at the backup step or   *)
(* because the iteration, finding none, has uploaded a new archive.         *)
C18_NoStaleBackupLeft ==
    IterationDone => RecentExists(backups, clock)

====
